---- MODULE Spec2Model ----
(***************************************************************************)
(* The OutlineScript agent (@/agents/outlineScript.ts).                    *)
(*                                                                         *)
(* Spec      the t_outline, t_script and t_assets tables of the record     *)
(*           store and the tools that change them (saveOutline,            *)
(*           updateOutline, deleteOutline, generateAssets)                 *)
(* SpecStory the t_storyline table with the storyline tools, and the       *)
(*           concurrent chapter lookups of getChapter                      *)
(* SpecValidate  tool calls as the model sends them, checked against the   *)
(*           inputSchema of the tool before its execute runs               *)
(* SpecEngine  call() and invokeSubAgent(): the turns, the shared history  *)
(*           and the notifications, as a subscriber sees them              *)
(* SpecBudget  the same engine driven by a Completion Service that only    *)
(*           requests tool calls, up to the step budget of the code        *)
(* SpecDispatch  the engine with the storyline tools run by the Completion *)
(*           Service after the loop has taken their tool-call item         *)
(* SpecFault the tools with a Record Store whose operations may reject     *)
(***************************************************************************)
EXTENDS Integers, Sequences, FiniteSets, Bags, TLC

VARIABLES
    t_outline,  \* set of rows [id, projectId, episode, data]
    t_script,   \* bag of rows [name, content, projectId, outlineId]
    t_assets,   \* set of rows [projectId, type, name, intro, prompt]
    nextId,     \* next auto-increment id of t_outline
    fresh,      \* TRUE when generateAssets ran and t_outline has not changed since
    last,       \* the tool execution whose result is being returned, with what it computed
    pre,        \* the tables as they were when that execution started (in
                \* SpecDispatch: when the call() under way started)
    t_storyline,\* bag of rows [projectId, content]
    gc,         \* the getChapter execution in flight: its numbers and its lookups
    history,    \* this.history: sequence of [role, content]
    turns,      \* the running turns, the top-level one first:
                \* [agent, phase, fullResponse, steps, item]
    run,        \* the call() under way or just ended: its status, its value, the history it found
    trace,      \* what a subscriber of the emitter recorded since the call started
    observing,  \* TRUE when there is such a subscriber
    calls       \* number of call() started on this instance

vars == <<t_outline, t_script, t_assets, nextId, fresh, last, pre, t_storyline, gc,
          history, turns, run, trace, observing, calls>>

outlineVars == <<t_outline, t_script, t_assets, nextId, fresh>>
storyVars == <<t_storyline, gc>>
engineVars == <<history, turns, run, trace, observing, calls>>

----------------------------------------------------------------------------
(* Bounds of the model *)

MaxId == 3          \* outline rows ever inserted (auto-increment ids 1..MaxId)
MaxBatch == 2       \* episodes in one saveOutline call
MaxStart == 3       \* largest explicit startEpisode
MaxIds == 2         \* ids in one deleteOutline call
MaxList == 3        \* chapter numbers in one getChapter call
MaxChapter == 3     \* largest chapter number asked for
MaxCalls == 2       \* call() invocations on one instance
MaxSteps == 1       \* tool calls explored in one turn of SpecEngine
MaxChars == 3       \* characters of text one turn streams

----------------------------------------------------------------------------
(* Values *)

projectId == 1      \* this.projectId of the engine under study
otherProject == projectId + 1   \* a project of the same store the engine does not own

NoStart == 0 - 1    \* startEpisode left out (undefined)
Absent == 0 - 1     \* a field missing from a parsed document

Item(n, d) == [name |-> n, description |-> d]

Doc(i, t, cs, ps, ss) ==
    [episodeIndex |-> i, title |-> t, characters |-> cs, props |-> ps, scenes |-> ss]

\* Episode documents a caller may pass (EpisodeData, the fields the tools read)
DocSet ==
    { Doc(1, "t1", <<Item("Lin", "a")>>, <<>>, <<Item("Hall", "a")>>),
      Doc(9, "t2", <<Item("Mei", "a"), Item("Lin", "b")>>, <<Item("Lin", "a")>>, <<>>) }

Batches == UNION { [1..n -> DocSet] : n \in 1..MaxBatch }

StartChoices == {NoStart} \cup (1..MaxStart)

AssetTypes == {"character", "prop", "scene"}

----------------------------------------------------------------------------
(* Helpers *)

Max(S) == CHOOSE x \in S : \A y \in S : y <= x

Min2(a, b) == IF a <= b THEN a ELSE b

Range(s) == { s[i] : i \in DOMAIN s }

\* JSON.stringify of a plain document: a string that parses back to it
JSONstringify(v) == <<"json", v>>

EmptyDoc == Doc(Absent, "", <<>>, <<>>, <<>>)

safeParseJson(str, fallback) == IF str[1] = "json" THEN str[2] ELSE fallback

\* rows of t_outline with where({ projectId: this.projectId })
Mine(outlines) == { o \in outlines : o.projectId = projectId }

\* rows of a set in ascending id order (an unordered select scans by rowid)
RECURSIVE ById(_)
ById(S) ==
    IF S = {} THEN <<>>
    ELSE LET o == CHOOSE x \in S : \A y \in S : x.id <= y.id
         IN  <<o>> \o ById(S \ {o})

\* the rows of a bag that satisfy Keep(_), with their multiplicities
SelectBag(B, Keep(_)) == [ r \in { x \in DOMAIN B : Keep(x) } |-> B[r] ]

\* the bag of the elements of a sequence
RECURSIVE SeqToBag(_)
SeqToBag(s) == IF s = <<>> THEN EmptyBag ELSE SetToBag({Head(s)}) (+) SeqToBag(Tail(s))

----------------------------------------------------------------------------
(* Outline operations *)

\* the outline of that id looked up in every project
findOutlineById_anyProject(outlines, id) ==
    { o \in outlines : o.id = id }

findOutlineById(outlines, id) ==
    { o \in Mine(outlines) : o.id = id }

\* the number of outlines taken for the largest episode number
getMaxEpisode_count(outlines) == Cardinality(Mine(outlines))

getMaxEpisode(outlines) ==
    IF Mine(outlines) = {} THEN 0
    ELSE Max({ o.episode : o \in Mine(outlines) })

\* the outlines cleared without their scripts
clearedScripts_kept(outlines, scripts) == scripts

\* clearOutlinesAndScripts: the two tables after it, and the count it returns
clearedScripts(outlines, scripts) ==
    LET outlineIds == { o.id : o \in Mine(outlines) }
    IN  SelectBag(scripts, LAMBDA s : s.outlineId \notin outlineIds)

clearedOutlines(outlines) == outlines \ Mine(outlines)

\* the 1-based position added to the start instead of the 0-based index
insertOutlines_offByOne(episodes, startEpisode, firstId) ==
    { [ id        |-> firstId + (idx - 1),
        projectId |-> projectId,
        data      |-> JSONstringify([episodes[idx] EXCEPT !.episodeIndex = startEpisode + idx]),
        episode   |-> startEpisode + idx ] : idx \in DOMAIN episodes }

\* insertOutlines: the rows it inserts, ids taken from the auto-increment
insertOutlines(episodes, startEpisode, firstId) ==
    { [ id        |-> firstId + (idx - 1),
        projectId |-> projectId,
        data      |-> JSONstringify([episodes[idx] EXCEPT !.episodeIndex = startEpisode + (idx - 1)]),
        episode   |-> startEpisode + (idx - 1) ] : idx \in DOMAIN episodes }

\* an explicit startEpisode taking precedence over overwrite
actualStart_startFirst(outlines, overwrite, startEpisode) ==
    IF startEpisode # NoStart THEN startEpisode
    ELSE IF overwrite THEN 1
    ELSE getMaxEpisode(outlines) + 1

actualStart(outlines, overwrite, startEpisode) ==
    IF overwrite THEN 1
    ELSE IF startEpisode # NoStart THEN startEpisode
    ELSE getMaxEpisode(outlines) + 1

\* select id, data where projectId order by episode desc limit n:
\* every result the store may return (rows of equal episode come in any order)
newOutlinesQuery(outlines, n) ==
    LET rows == Mine(outlines)
        k    == Min2(n, Cardinality(rows))
    IN  { q \in [1..k -> rows] :
            /\ \A i, j \in 1..k : i < j => q[i] # q[j] /\ q[i].episode >= q[j].episode
            /\ \A o \in rows \ Range(q) : \A i \in 1..k : q[i].episode >= o.episode }

createEmptyScripts(outlineIds) ==
    [ i \in DOMAIN outlineIds |->
        LET data == safeParseJson(outlineIds[i].data, EmptyDoc)
        IN  [ name      |-> <<"Episode", data.episodeIndex>>,
              content   |-> "",
              projectId |-> projectId,
              outlineId |-> outlineIds[i].id ] ]

\* the tables when an execution starts
Snapshot ==
    [ t_outline |-> t_outline, t_script |-> t_script, t_assets |-> t_assets,
      fresh |-> fresh, t_storyline |-> t_storyline ]

NoCall == [tool |-> "none"]

\* no execution is under way: the previous result has been returned
Idle == last = NoCall

\* saveOutline.execute -> saveOutlineData
saveOutline(episodes, overwrite, startEpisode) ==
    /\ Idle
    /\ nextId + Len(episodes) - 1 <= MaxId
    /\ LET cleared  == IF overwrite THEN Cardinality(Mine(t_outline)) ELSE 0
           scripts0 == IF overwrite THEN clearedScripts(t_outline, t_script) ELSE t_script
           outl0    == IF overwrite THEN clearedOutlines(t_outline) ELSE t_outline
           start    == actualStart(outl0, overwrite, startEpisode)
           inserted == insertOutlines(episodes, start, nextId)
           outl1    == outl0 \cup inserted
       IN  \E newOutlines \in newOutlinesQuery(outl1, Cardinality(inserted)) :
             LET created == createEmptyScripts(newOutlines)
             IN  /\ t_outline' = outl1
                 /\ t_script' = scripts0 (+) SeqToBag(created)
                 /\ nextId' = nextId + Len(episodes)
                 /\ last' = [ tool          |-> "saveOutline",
                              episodes      |-> episodes,
                              overwrite     |-> overwrite,
                              startEpisode  |-> startEpisode,
                              cleared       |-> cleared,
                              actualStart   |-> start,
                              firstId       |-> nextId,
                              insertedCount |-> Cardinality(inserted),
                              scriptCount   |-> Len(created),
                              refresh       |-> <<"outline">> ]
    /\ pre' = Snapshot
    /\ fresh' = FALSE
    /\ UNCHANGED t_assets

SaveOutline ==
    \E episodes \in Batches, overwrite \in BOOLEAN, startEpisode \in StartChoices :
        saveOutline(episodes, overwrite, startEpisode)

\* updateOutline.execute -> updateOutlineData
updatedOutlines(outlines, id, data) ==
    { IF o.id = id THEN [o EXCEPT !.data = JSONstringify(data)] ELSE o : o \in outlines }

\* the text updateOutline.execute returns
updateOutlineText(id, success) ==
    IF success THEN <<"outline", id, "updated">> ELSE <<"outline", id, "not found">>

updateOutline(id, data) ==
    LET success == findOutlineById(t_outline, id) # {}
    IN  /\ Idle
        /\ t_outline' = IF success THEN updatedOutlines(t_outline, id, data) ELSE t_outline
        /\ fresh' = (fresh /\ t_outline' = t_outline)
        /\ last' = [ tool    |-> "updateOutline",
                     id      |-> id,
                     data    |-> data,
                     success |-> success,
                     text    |-> updateOutlineText(id, success),
                     refresh |-> IF success THEN <<"outline">> ELSE <<>> ]
        /\ pre' = Snapshot
        /\ UNCHANGED <<t_script, t_assets, nextId>>

UpdateOutline ==
    \E id \in 1..MaxId, data \in DocSet : updateOutline(id, data)

\* u.deleteOutline(id, projectId): the outline of that id in the project and the
\* scripts that belong to it go; it rejects when there is no such outline or
\* when the store fails
deleteOne(db, id, storeFails) ==
    IF storeFails \/ findOutlineById(db.t_outline, id) = {}
    THEN [ t_outline |-> db.t_outline, t_script |-> db.t_script, status |-> "rejected" ]
    ELSE [ t_outline |-> db.t_outline \ findOutlineById(db.t_outline, id),
           t_script  |-> SelectBag(db.t_script, LAMBDA s : s.outlineId # id),
           status    |-> "fulfilled" ]

\* Promise.allSettled(ids.map(...)): the tables after the first n ids
RECURSIVE deleteOutlineData(_, _, _, _)
deleteOutlineData(db, ids, failing, n) ==
    IF n = 0 THEN db
    ELSE deleteOne(deleteOutlineData(db, ids, failing, n - 1), ids[n], n \in failing)

\* the settled result of each id, in the position of the id
settled(db, ids, failing) ==
    [ i \in DOMAIN ids |-> deleteOutlineData(db, ids, failing, i).status ]

summary(ids, results) ==
    [ i \in DOMAIN ids |->
        <<"ID", ids[i], IF results[i] = "fulfilled" THEN "ok" ELSE "failed">> ]

\* deleteOutline.execute
deleteOutline(ids, failing) ==
    LET db0     == [ t_outline |-> t_outline, t_script |-> t_script, status |-> "none" ]
        db1     == deleteOutlineData(db0, ids, failing, Len(ids))
        results == settled(db0, ids, failing)
    IN  /\ Idle
        /\ t_outline' = db1.t_outline
        /\ fresh' = (fresh /\ t_outline' = t_outline)
        /\ t_script' = db1.t_script
        /\ last' = [ tool    |-> "deleteOutline",
                     ids     |-> ids,
                     failing |-> failing,
                     results |-> results,
                     text    |-> summary(ids, results),
                     refresh |-> <<"outline">> ]
        /\ pre' = Snapshot
        /\ UNCHANGED <<t_assets, nextId>>

IdLists == UNION { [1..n -> 1..MaxId] : n \in 1..MaxIds }

DeleteOutline ==
    \E ids \in IdLists : \E failing \in SUBSET (DOMAIN ids) :
        deleteOutline(ids, failing)

----------------------------------------------------------------------------
(* Asset operations *)

findAssetByTypeAndName(assets, type, name) ==
    { a \in assets : a.projectId = projectId /\ a.type = type /\ a.name = name }

\* new Map(items.map(item => [item.name, item])).values(): one item per name,
\* in the order the names first occur, each holding its last occurrence
uniqueByName(items) ==
    LET idx    == [ i \in DOMAIN items |-> i ]
        firsts == SelectSeq(idx, LAMBDA i : \A j \in 1..(i - 1) : items[j].name # items[i].name)
    IN  [ k \in DOMAIN firsts |->
            items[Max({ i \in DOMAIN items : items[i].name = items[firsts[k]].name })] ]

\* the entries of one list of every outline, in the order of the outlines
RECURSIVE collect(_, _)
collect(outlines, field) ==
    IF outlines = <<>> THEN <<>>
    ELSE LET data == safeParseJson(Head(outlines).data, EmptyDoc)
         IN  (CASE field = "characters" -> data.characters
                [] field = "props"      -> data.props
                [] field = "scenes"     -> data.scenes) \o collect(Tail(outlines), field)

extractAssetsFromOutlines(outlines) ==
    [ characters |-> uniqueByName(collect(outlines, "characters")),
      props      |-> uniqueByName(collect(outlines, "props")),
      scenes     |-> uniqueByName(collect(outlines, "scenes")) ]

\* an existing asset rewritten without comparing its description
upsertAsset_noCompare(assets, type, item) ==
    LET existing == findAssetByTypeAndName(assets, type, item.name)
    IN  IF existing = {}
        THEN [ assets |-> assets \cup { [ projectId |-> projectId, type |-> type,
                                          name |-> item.name, intro |-> item.description,
                                          prompt |-> item.description ] },
               result |-> "inserted" ]
        ELSE LET e == CHOOSE a \in existing : TRUE
             IN  [ assets |-> (assets \ {e}) \cup
                                { [e EXCEPT !.intro = item.description,
                                            !.prompt = item.description] },
                   result |-> "updated" ]

\* upsertAsset: the table after it and the outcome it returns
upsertAsset(assets, type, item) ==
    LET existing == findAssetByTypeAndName(assets, type, item.name)
    IN  IF existing = {}
        THEN [ assets |-> assets \cup { [ projectId |-> projectId, type |-> type,
                                          name |-> item.name, intro |-> item.description,
                                          prompt |-> item.description ] },
               result |-> "inserted" ]
        ELSE LET e == CHOOSE a \in existing : TRUE
             IN  IF e.intro # item.description
                 THEN [ assets |-> (assets \ {e}) \cup
                                     { [e EXCEPT !.intro = item.description,
                                                 !.prompt = item.description] },
                        result |-> "updated" ]
                 ELSE [ assets |-> assets, result |-> "skipped" ]

\* processItems: acc is the table and the stats so far
RECURSIVE processItems(_, _, _)
processItems(acc, items, type) ==
    IF items = <<>> THEN acc
    ELSE LET r == upsertAsset(acc.assets, type, Head(items))
         IN  processItems(
                 [ assets   |-> r.assets,
                   inserted |-> acc.inserted + (IF r.result = "inserted" THEN 1 ELSE 0),
                   updated  |-> acc.updated + (IF r.result = "updated" THEN 1 ELSE 0),
                   skipped  |-> acc.skipped + (IF r.result = "skipped" THEN 1 ELSE 0) ],
                 Tail(items), type)

\* select data from t_outline where projectId, with no order by
scanOutlines(outlines) == ById(Mine(outlines))

\* generateAssetsFromOutlines with a cleanup: assets the outlines no longer name go
generateAssetsFromOutlines_cleanup(outlines, assets) ==
    LET rows == scanOutlines(outlines)
        none == [ assets |-> assets, inserted |-> 0, updated |-> 0, skipped |-> 0 ]
    IN  IF rows = <<>> THEN none
        ELSE LET ex == extractAssetsFromOutlines(rows)
                 a1 == processItems(none, ex.characters, "character")
                 a2 == processItems(a1, ex.props, "prop")
                 a3 == processItems(a2, ex.scenes, "scene")
                 named(a) == \E it \in Range(ex.characters \o ex.props \o ex.scenes) :
                                 it.name = a.name
             IN  [ a3 EXCEPT !.assets = { a \in a3.assets : named(a) } ]

generateAssetsFromOutlines(outlines, assets) ==
    LET rows == scanOutlines(outlines)
        none == [ assets |-> assets, inserted |-> 0, updated |-> 0, skipped |-> 0 ]
    IN  IF rows = <<>> THEN none
        ELSE LET ex == extractAssetsFromOutlines(rows)
                 a1 == processItems(none, ex.characters, "character")
                 a2 == processItems(a1, ex.props, "prop")
             IN  processItems(a2, ex.scenes, "scene")

\* generateAssets.execute
GenerateAssets ==
    LET r == generateAssetsFromOutlines(t_outline, t_assets)
    IN  /\ Idle
        /\ t_assets' = r.assets
        /\ fresh' = TRUE
        /\ last' = [ tool     |-> "generateAssets",
                     inserted |-> r.inserted,
                     updated  |-> r.updated,
                     skipped  |-> r.skipped,
                     refresh  |-> IF Mine(t_outline) = {} THEN <<>> ELSE <<"assets">> ]
        /\ pre' = Snapshot
        /\ UNCHANGED <<t_outline, t_script, nextId>>

\* the result of the execution goes back to the Completion Service
Return ==
    /\ ~Idle
    /\ last' = NoCall
    /\ pre' = NoCall
    /\ UNCHANGED <<outlineVars, storyVars, engineVars>>

----------------------------------------------------------------------------
(* Storyline operations *)

\* storyline texts a caller may pass
Contents == {"s1", "s2"}

\* rows of t_storyline with where({ projectId: this.projectId })
MyStorylines(tbl) == SelectBag(tbl, LAMBDA r : r.projectId = projectId)

\* findStoryline: the rows .first() picks from
findStoryline(tbl) == BagToSet(MyStorylines(tbl))

\* every save inserting a row
upsertStorylineContent_alwaysInsert(tbl, content) ==
    tbl (+) SetToBag({ [ projectId |-> projectId, content |-> content ] })

\* upsertStorylineContent: the table after it
upsertStorylineContent(tbl, content) ==
    IF findStoryline(tbl) # {}
    THEN (tbl (-) MyStorylines(tbl)) (+)
             [ r \in { [ projectId |-> projectId, content |-> content ] } |->
                   BagCardinality(MyStorylines(tbl)) ]
    ELSE tbl (+) SetToBag({ [ projectId |-> projectId, content |-> content ] })

\* deleteStorylineContent: the table after it and the count del() returns
deleteStorylineContent(tbl) ==
    [ t_storyline |-> tbl (-) MyStorylines(tbl),
      deleted     |-> BagCardinality(MyStorylines(tbl)) ]

NoRun == [ chapterNumbers |-> <<>> ]

\* no tool of the storyline and chapter group is under way
StoryIdle == Idle /\ gc = NoRun

\* getStoryline.execute
GetStoryline ==
    LET storyline == findStoryline(t_storyline)
    IN  /\ StoryIdle
        /\ last' = [ tool    |-> "getStoryline",
                     text    |-> IF storyline # {}
                                 THEN (CHOOSE r \in storyline : TRUE).content
                                 ELSE "no storyline yet",
                     refresh |-> <<>> ]
        /\ pre' = Snapshot
        /\ UNCHANGED <<t_storyline, gc>>

\* saveStoryline.execute
saveStoryline(content) ==
    /\ StoryIdle
    /\ t_storyline' = upsertStorylineContent(t_storyline, content)
    /\ last' = [ tool    |-> "saveStoryline",
                 content |-> content,
                 text    |-> "storyline saved",
                 refresh |-> <<"storyline">> ]
    /\ pre' = Snapshot
    /\ UNCHANGED gc

SaveStoryline == \E content \in Contents : saveStoryline(content)

\* deleteStoryline.execute
DeleteStoryline ==
    LET r == deleteStorylineContent(t_storyline)
    IN  /\ StoryIdle
        /\ t_storyline' = r.t_storyline
        /\ last' = [ tool    |-> "deleteStoryline",
                     deleted |-> r.deleted,
                     text    |-> IF r.deleted > 0 THEN "storyline deleted"
                                                  ELSE "no storyline",
                     refresh |-> <<"storyline">> ]
        /\ pre' = Snapshot
        /\ UNCHANGED gc

----------------------------------------------------------------------------
(* Chapter operations *)

\* the chapters of the store: 1 and 3 of the project (3 without a title), 2 of
\* another project only
t_novel ==
    { [ projectId |-> projectId, chapterIndex |-> 1, chapter |-> "c1", chapterData |-> "d1" ],
      [ projectId |-> projectId, chapterIndex |-> 3, chapter |-> "", chapterData |-> "d3" ],
      [ projectId |-> otherProject, chapterIndex |-> 2, chapter |-> "c2", chapterData |-> "d2" ] }

ChapterLists == UNION { [1..n -> 1..MaxChapter] : n \in 1..MaxList }

Pending == <<"pending">>

\* the callback of chapterNumbers.map: the block of one number
chapterBlock(num) ==
    LET found == { c \in t_novel : c.projectId = projectId /\ c.chapterIndex = num }
    IN  IF found # {}
        THEN LET chapter == CHOOSE c \in found : TRUE
             IN  <<"chapter", chapter.chapterIndex, chapter.chapter, chapter.chapterData>>
        ELSE <<"chapter", num, "not found">>

\* a result put where the next free place is, in the order of completion
resolveAt_completionOrder(results, i, block) ==
    LET k == CHOOSE k \in DOMAIN results :
                 results[k] = Pending /\ \A j \in 1..(k - 1) : results[j] # Pending
    IN  [ results EXCEPT ![k] = block ]

\* Promise.all: the value of the i-th promise goes to the i-th place
resolveAt(results, i, block) == [ results EXCEPT ![i] = block ]

\* results.join(separator)
RECURSIVE join(_, _)
join(results, separator) ==
    IF Len(results) <= 1 THEN results
    ELSE <<Head(results), separator>> \o join(Tail(results), separator)

\* getChapter.execute up to its await: every lookup is issued
getChapter(chapterNumbers) ==
    /\ StoryIdle
    /\ gc' = [ chapterNumbers |-> chapterNumbers,
               results        |-> [ i \in DOMAIN chapterNumbers |-> Pending ],
               order          |-> <<>> ]
    /\ UNCHANGED <<t_storyline, last, pre>>

GetChapter == \E chapterNumbers \in ChapterLists : getChapter(chapterNumbers)

\* one lookup completes, whichever the store answers first
LookupDone ==
    /\ gc # NoRun
    /\ \E i \in DOMAIN gc.chapterNumbers :
           /\ i \notin Range(gc.order)
           /\ gc' = [ gc EXCEPT
                        !.results = resolveAt(@, i, chapterBlock(gc.chapterNumbers[i])),
                        !.order   = Append(@, i) ]
    /\ UNCHANGED <<t_storyline, last, pre>>

\* every lookup completed: getChapter.execute returns the joined text
GetChapterJoin ==
    /\ gc # NoRun
    /\ Len(gc.order) = Len(gc.chapterNumbers)
    /\ last' = [ tool           |-> "getChapter",
                 chapterNumbers |-> gc.chapterNumbers,
                 order          |-> gc.order,
                 text           |-> join(gc.results, "---"),
                 refresh        |-> <<>> ]
    /\ pre' = Snapshot
    /\ gc' = NoRun
    /\ UNCHANGED t_storyline

----------------------------------------------------------------------------
(* The orchestration engine: call() and invokeSubAgent() *)

\* maxStep: 100, passed to u.ai.text.stream by call() and by invokeSubAgent()
maxStep == 100

AgentTypes == {"AI1", "AI2", "director"}

\* the tools of a sub-agent turn
getSubAgentTools ==
    {"getChapter", "getStoryline", "saveStoryline", "getOutline", "saveOutline",
     "updateOutline"}

\* the tools of the top-level turn
getAllTools ==
    AgentTypes \cup
    {"getChapter", "getStoryline", "saveStoryline", "deleteStoryline", "getOutline",
     "saveOutline", "updateOutline", "deleteOutline", "generateAssets"}

\* a sub-agent turn given the tools of the top-level turn
toolsOf_all(agent) == getAllTools

\* tools: of the u.ai.text.stream call of a turn
toolsOf(agent) == IF agent = "main" THEN getAllTools ELSE getSubAgentTools

\* a turn started without a usable step budget
stepBudget_unbounded(agent) == maxStep * maxStep

\* maxStep: of the u.ai.text.stream call of a turn
stepBudget(agent) == maxStep

\* texts: sequences of characters, so that += is concatenation
Fragments == { <<"a">>, <<"b", "c">> }
Messages == { <<"q">> }

\* the tags of the turns: the top-level agent and the personas
Tags == {"main"} \cup AgentTypes

\* the tool names the Completion Service asks a turn for in SpecEngine: two
\* personas, a tool of both catalogs, two tools of the top-level catalog only
Requests ==
    [ agent \in Tags |->
        {"AI1", "director", "saveStoryline", "deleteOutline", "generateAssets"} ]

\* the tool names it asks for in SpecBudget, where it drives the engine to the
\* most tool executions: a delegation at every step of the top-level turn, a
\* tool at every step of the sub-agent turn
BudgetRequests ==
    [ agent \in Tags |-> IF agent = "main" THEN {"AI1"} ELSE {"saveStoryline"} ]

NoRunningCall == [ status |-> "idle" ]

\* null, as a notification carries it
Null == <<"null">>

\* a tool-call item of a stream: the title of the tool and the input of the call
ToolCallPart(title, input) == [ title |-> title, input |-> input ]

\* no item taken from the stream is waiting for its tool to run
NoItem == [ title |-> "none" ]

\* this.emit(event, data), as the subscriber records it
emit(log, notification) == IF observing THEN Append(log, notification) ELSE log

\* the accumulator replaced by the fragment
accumulate_overwrite(fullResponse, text) == text

\* fullResponse += item.text
accumulate(fullResponse, text) == fullResponse \o text

\* this.emit("toolCall", { agent: "main", name: item.title, args: null }), in
\* call() and in invokeSubAgent() alike
toolCallEvent(agent, title) ==
    [ event |-> "toolCall", agent |-> "main", name |-> title, args |-> Null ]

\* the notification of a text-delta: data in call(), subAgentStream in invokeSubAgent()
textEvent(agent, text) ==
    IF agent = "main" THEN [ event |-> "data", text |-> text ]
    ELSE [ event |-> "subAgentStream", agent |-> agent, text |-> text ]

\* the user entry left out of the history
pushUser_dropped(h, msg) == h

\* this.history.push({ role: "user", content: msg })
pushUser(h, msg) == Append(h, [ role |-> "user", content |-> msg ])

\* the assistant entry put in front of the history
pushAssistant_front(h, fullResponse) ==
    <<[ role |-> "assistant", content |-> fullResponse ]>> \o h

\* this.history.push({ role: "assistant", content: fullResponse })
pushAssistant(h, fullResponse) == Append(h, [ role |-> "assistant", content |-> fullResponse ])

Turn(agent) ==
    [ agent |-> agent, phase |-> "context", fullResponse |-> <<>>, steps |-> 0,
      item |-> NoItem ]

\* the turn whose stream is being read
current == turns[Len(turns)]

Pop(stack) == SubSeq(stack, 1, Len(stack) - 1)

SetTop(stack, turn) == [ stack EXCEPT ![Len(stack)] = turn ]

\* call(msg) up to its first await
call(msg) ==
    /\ turns = <<>>
    /\ calls < MaxCalls
    /\ history' = pushUser(history, msg)
    /\ turns' = <<Turn("main")>>
    /\ run' = [ status |-> "running", msg |-> msg, found |-> history ]
    /\ trace' = <<>>
    /\ calls' = calls + 1
    /\ UNCHANGED observing

Call == \E msg \in Messages : call(msg)

\* the context and the prompts are read and u.ai.text.stream answers
StartStream ==
    /\ turns # <<>>
    /\ current.phase = "context"
    /\ turns' = SetTop(turns, [ current EXCEPT !.phase = "stream" ])
    /\ UNCHANGED <<history, run, trace, observing, calls>>

\* a text-delta of the stream of the current turn
TextDelta ==
    /\ turns # <<>>
    /\ current.phase = "stream"
    /\ \E text \in Fragments :
           /\ Len(current.fullResponse) + Len(text) <= MaxChars
           /\ turns' = SetTop(turns,
                  [ current EXCEPT !.fullResponse = accumulate(@, text) ])
           /\ trace' = emit(trace, textEvent(current.agent, text))
    /\ UNCHANGED <<history, run, observing, calls>>

\* a tool-call of the stream of the current turn, within its step budget: the
\* loop emits toolCall and the Completion Service executes the tool; a
\* delegation tool enters invokeSubAgent, which emits transfer at once
ToolCall(requests, cap) ==
    /\ turns # <<>>
    /\ current.phase = "stream"
    /\ current.steps < stepBudget(current.agent)
    /\ current.steps < cap
    /\ \E title \in requests[current.agent] \cap toolsOf(current.agent) :
           LET counted == SetTop(turns, [ current EXCEPT !.steps = @ + 1 ])
               called  == emit(emit(trace, toolCallEvent(current.agent, title)),
                               [ event |-> "execute", tool |-> title,
                                 turn |-> current.agent ])
           IN  IF title \in AgentTypes
               THEN /\ turns' = Append(counted, Turn(title))
                    /\ trace' = emit(called, [ event |-> "transfer", to |-> title ])
               ELSE /\ turns' = counted
                    /\ trace' = called
    /\ UNCHANGED <<history, run, observing, calls>>

\* the tool-call items the Completion Service sends a turn in SpecDispatch,
\* with their inputs: a delegation and the storyline tools
DispatchRequests ==
    [ agent \in Tags |->
        IF agent = "main"
        THEN { ToolCallPart("AI1", [ taskDescription |-> "task" ]),
               ToolCallPart("saveStoryline", [ content |-> "s1" ]),
               ToolCallPart("deleteStoryline", <<>>),
               ToolCallPart("getStoryline", <<>>) }
        ELSE { ToolCallPart("saveStoryline", [ content |-> "s2" ]),
               ToolCallPart("getStoryline", <<>>) } ]

\* this.refresh(type)
refreshEvent(type) == [ event |-> "refresh", type |-> type ]

\* a loop that takes the item without a notification
onToolCall_silent(log, agent, item) == log

\* if (item.type == "tool-call") this.emit("toolCall", ...)
onToolCall(log, agent, item) == emit(log, toolCallEvent(agent, item.title))

\* the loop of call() or of invokeSubAgent() takes a tool-call item of the
\* stream of the current turn, within its step budget, and emits toolCall
ToolCallItem(requests, cap) ==
    /\ turns # <<>>
    /\ current.phase = "stream"
    /\ current.steps < stepBudget(current.agent)
    /\ current.steps < cap
    /\ \E item \in requests[current.agent] :
           /\ item.title \in toolsOf(current.agent)
           /\ turns' = SetTop(turns, [ current EXCEPT !.steps = @ + 1,
                                                      !.phase = "tool",
                                                      !.item  = item ])
           /\ trace' = onToolCall(trace, current.agent, item)
    /\ UNCHANGED <<history, run, observing, calls>>

\* the loop awaits the next item and the Completion Service runs the tool of
\* the item taken: execute of a storyline tool, or of a delegation tool up to
\* the first await of invokeSubAgent
ExecuteTool ==
    /\ turns # <<>>
    /\ current.phase = "tool"
    /\ LET item    == current.item
           resumed == SetTop(turns, [ current EXCEPT !.phase = "stream", !.item = NoItem ])
           started == emit(trace, [ event |-> "execute", tool |-> item.title,
                                    turn |-> current.agent ])
       IN  CASE item.title \in AgentTypes ->
                    /\ turns' = Append(resumed, Turn(item.title))
                    /\ trace' = emit(started, [ event |-> "transfer", to |-> item.title ])
                    /\ UNCHANGED t_storyline
             [] item.title = "saveStoryline" ->
                    /\ t_storyline' = upsertStorylineContent(t_storyline, item.input.content)
                    /\ trace' = emit(started, refreshEvent("storyline"))
                    /\ turns' = resumed
             [] item.title = "deleteStoryline" ->
                    /\ t_storyline' = deleteStorylineContent(t_storyline).t_storyline
                    /\ trace' = emit(started, refreshEvent("storyline"))
                    /\ turns' = resumed
             [] OTHER ->
                    /\ turns' = resumed
                    /\ trace' = started
                    /\ UNCHANGED t_storyline
    /\ UNCHANGED <<history, run, observing, calls>>

\* the stream of a sub-agent turn ends: invokeSubAgent emits subAgentEnd
SubAgentEnd ==
    /\ Len(turns) >= 2
    /\ current.phase = "stream"
    /\ turns' = SetTop(turns, [ current EXCEPT !.phase = "ended" ])
    /\ trace' = emit(trace, [ event |-> "subAgentEnd", agent |-> current.agent ])
    /\ UNCHANGED <<history, run, observing, calls>>

\* invokeSubAgent appends its text to the history and returns it to the tool call
SubAgentReturn ==
    /\ Len(turns) >= 2
    /\ current.phase = "ended"
    /\ history' = pushAssistant(history, current.fullResponse)
    /\ turns' = Pop(turns)
    /\ UNCHANGED <<run, trace, observing, calls>>

\* the stream of the top-level turn ends: call() appends its text to the history
CallPush ==
    /\ Len(turns) = 1
    /\ current.phase = "stream"
    /\ history' = pushAssistant(history, current.fullResponse)
    /\ turns' = SetTop(turns, [ current EXCEPT !.phase = "ended" ])
    /\ UNCHANGED <<run, trace, observing, calls>>

\* call() emits response and returns
CallReturn ==
    /\ Len(turns) = 1
    /\ current.phase = "ended"
    /\ trace' = emit(trace, [ event |-> "response", text |-> current.fullResponse ])
    /\ run' = [ run EXCEPT !.status = "returned" ] @@ [ value |-> current.fullResponse ]
    /\ turns' = <<>>
    /\ UNCHANGED <<history, observing, calls>>

\* an await of call() or of invokeSubAgent() rejects (a Record Store lookup,
\* u.getPromptAi, the Completion Service): nothing catches it and call() rejects
Fail ==
    /\ turns # <<>>
    /\ current.phase \in {"context", "stream"}
    /\ run' = [ run EXCEPT !.status = "raised" ] @@ [ failedIn |-> current.agent ]
    /\ turns' = <<>>
    /\ UNCHANGED <<history, trace, observing, calls>>

----------------------------------------------------------------------------
(* Tool calls and their input schemas *)

\* an episode document as the model sends it, with n key events
Episode(d, n) == d @@ [ keyEvents |-> [ i \in 1..n |-> "event" ] ]

SentEpisodes ==
    LET d == CHOOSE x \in DocSet : x.title = "t1"
    IN  { <<>>, <<Episode(d, 4)>>, <<Episode(d, 3)>>, <<Episode(d, 4), Episode(d, 5)>> }

SaveOutlineInputs ==
    { [ episodes |-> e, overwrite |-> o ] : e \in SentEpisodes, o \in BOOLEAN }
    \cup { [ episodes |-> e ] : e \in SentEpisodes }
    \cup { [ episodes |-> e, overwrite |-> FALSE, startEpisode |-> 1 ] : e \in SentEpisodes }

UpdateOutlineInputs ==
    LET d == CHOOSE x \in DocSet : x.title = "t2"
    IN  { [ id |-> i, data |-> Episode(d, n) ] : i \in 1..MaxId, n \in {3, 4} }
        \cup { [ data |-> Episode(d, 4) ] }

DeleteOutlineInputs == { [ ids |-> l ] : l \in {<<>>} \cup [1..1 -> 1..MaxId] }

GetChapterInputs == { [ chapterNumbers |-> l ] : l \in {<<>>, <<1>>, <<2, 1>>} }

\* episodeSchema: keyEvents: z.array(z.string()).length(4)
episodeSchema(data) == Len(data.keyEvents) = 4

\* the schema of saveOutline without the .min(1) of episodes
saveOutlineSchema_noMin(input) ==
    \A i \in DOMAIN input.episodes : episodeSchema(input.episodes[i])

\* saveOutline.inputSchema
saveOutlineSchema(input) ==
    /\ Len(input.episodes) >= 1
    /\ \A i \in DOMAIN input.episodes : episodeSchema(input.episodes[i])

\* updateOutline.inputSchema
updateOutlineSchema(input) ==
    /\ "id" \in DOMAIN input
    /\ episodeSchema(input.data)

\* deleteOutline.inputSchema
deleteOutlineSchema(input) == Len(input.ids) >= 1

\* getChapter.inputSchema
getChapterSchema(input) == Len(input.chapterNumbers) >= 1

\* overwrite: z.boolean().default(true)
overwriteOf(input) == IF "overwrite" \in DOMAIN input THEN input.overwrite ELSE TRUE

\* startEpisode: z.number().optional()
startEpisodeOf(input) ==
    IF "startEpisode" \in DOMAIN input THEN input.startEpisode ELSE NoStart

idOf(input) == IF "id" \in DOMAIN input THEN input.id ELSE Absent

\* the input does not parse: execute is not called and the tool call fails
Reject(tool, input) ==
    /\ StoryIdle
    /\ last' = [ tool |-> tool, rejected |-> TRUE, input |-> input, refresh |-> <<>> ]
    /\ pre' = Snapshot
    /\ UNCHANGED <<outlineVars, storyVars, engineVars>>

SaveOutlineCall ==
    \E input \in SaveOutlineInputs :
        IF saveOutlineSchema(input)
        THEN /\ StoryIdle
             /\ saveOutline(input.episodes, overwriteOf(input), startEpisodeOf(input))
             /\ UNCHANGED <<storyVars, engineVars>>
        ELSE Reject("saveOutline", input)

UpdateOutlineCall ==
    \E input \in UpdateOutlineInputs :
        IF updateOutlineSchema(input)
        THEN /\ StoryIdle
             /\ updateOutline(idOf(input), input.data)
             /\ UNCHANGED <<storyVars, engineVars>>
        ELSE Reject("updateOutline", input)

DeleteOutlineCall ==
    \E input \in DeleteOutlineInputs :
        IF deleteOutlineSchema(input)
        THEN /\ StoryIdle
             /\ \E failing \in SUBSET (DOMAIN input.ids) : deleteOutline(input.ids, failing)
             /\ UNCHANGED <<storyVars, engineVars>>
        ELSE Reject("deleteOutline", input)

GetChapterCall ==
    \E input \in GetChapterInputs :
        IF getChapterSchema(input)
        THEN /\ getChapter(input.chapterNumbers)
             /\ UNCHANGED <<outlineVars, engineVars>>
        ELSE Reject("getChapter", input)

----------------------------------------------------------------------------

(* Record Store failures: an awaited store operation rejects *)

\* the store operations saveOutlineData awaits, in the order it awaits them
saveOutlineOps(outlines, overwrite, startEpisode) ==
    (IF overwrite
     THEN <<"selectIds">> \o
          (IF Mine(outlines) # {} THEN <<"delScripts", "delOutlines">> ELSE <<>>)
     ELSE IF startEpisode = NoStart THEN <<"maxEpisode">> ELSE <<>>)
    \o <<"insertOutlines", "readBack", "insertScripts">>

\* the operations that completed before the one that rejects
completed(ops, failAt) == { ops[i] : i \in 1..(failAt - 1) }

\* saveOutline.execute when the store operation number failAt rejects: the
\* operations before it have taken effect, nothing catches the rejection and
\* execute rejects
saveOutlineFails(episodes, overwrite, startEpisode, failAt) ==
    LET ops      == saveOutlineOps(t_outline, overwrite, startEpisode)
        done     == completed(ops, failAt)
        scripts0 == IF "delScripts" \in done
                    THEN clearedScripts(t_outline, t_script) ELSE t_script
        outl0    == IF "delOutlines" \in done THEN clearedOutlines(t_outline) ELSE t_outline
        start    == actualStart(outl0, overwrite, startEpisode)
        inserted == IF "insertOutlines" \in done
                    THEN insertOutlines(episodes, start, nextId) ELSE {}
    IN  /\ StoryIdle
        /\ failAt \in DOMAIN ops
        /\ nextId + Len(episodes) - 1 <= MaxId
        /\ t_outline' = outl0 \cup inserted
        /\ t_script' = scripts0
        /\ nextId' = nextId + Cardinality(inserted)
        /\ fresh' = (fresh /\ t_outline' = t_outline)
        /\ last' = [ tool         |-> "saveOutline",
                     episodes     |-> episodes,
                     overwrite    |-> overwrite,
                     startEpisode |-> startEpisode,
                     raised       |-> ops[failAt],
                     refresh      |-> <<>> ]
        /\ pre' = Snapshot
        /\ UNCHANGED t_assets

SaveOutlineFails ==
    \E episodes \in Batches, overwrite \in BOOLEAN, startEpisode \in StartChoices :
        \E failAt \in DOMAIN saveOutlineOps(t_outline, overwrite, startEpisode) :
            saveOutlineFails(episodes, overwrite, startEpisode, failAt)

\* the upserts generateAssetsFromOutlines awaits, in the order it awaits them
upsertOps(outlines) ==
    LET rows == scanOutlines(outlines)
        ex   == extractAssetsFromOutlines(rows)
    IN  [ i \in DOMAIN ex.characters |-> [ type |-> "character", item |-> ex.characters[i] ] ]
        \o [ i \in DOMAIN ex.props |-> [ type |-> "prop", item |-> ex.props[i] ] ]
        \o [ i \in DOMAIN ex.scenes |-> [ type |-> "scene", item |-> ex.scenes[i] ] ]

\* the table after the first n of them
RECURSIVE upserted(_, _, _)
upserted(assets, ops, n) ==
    IF n = 0 THEN assets
    ELSE upsertAsset(upserted(assets, ops, n - 1), ops[n].type, ops[n].item).assets

\* generateAssets.execute when the select of the outlines (failAt = 0) or the
\* upsert number failAt rejects
generateAssetsFails(failAt) ==
    LET ops == upsertOps(t_outline)
    IN  /\ StoryIdle
        /\ failAt \in 0..Len(ops)
        /\ t_assets' = IF failAt = 0 THEN t_assets ELSE upserted(t_assets, ops, failAt - 1)
        /\ fresh' = FALSE
        /\ last' = [ tool    |-> "generateAssets",
                     raised  |-> IF failAt = 0 THEN "selectOutlines" ELSE "upsertAsset",
                     refresh |-> <<>> ]
        /\ pre' = Snapshot
        /\ UNCHANGED <<t_outline, t_script, nextId>>

GenerateAssetsFails ==
    \E failAt \in 0..Len(upsertOps(t_outline)) : generateAssetsFails(failAt)

\* an execute whose store operation rejects before any write of it took effect
Raise(tool, op) ==
    /\ StoryIdle
    /\ last' = [ tool |-> tool, raised |-> op, refresh |-> <<>> ]
    /\ pre' = Snapshot
    /\ UNCHANGED <<outlineVars, storyVars, engineVars>>

\* getChapter.execute: a lookup of Promise.all rejects
GetChapterFails == Raise("getChapter", "first")

\* getStoryline.execute: findStoryline rejects
GetStorylineFails == Raise("getStoryline", "first")

\* saveStoryline.execute: findStoryline, or the update or insert after it, rejects
SaveStorylineFails == \E op \in {"first", "write"} : Raise("saveStoryline", op)

\* deleteStoryline.execute: del rejects
DeleteStorylineFails == Raise("deleteStoryline", "del")

\* getOutline.execute: findOutlines rejects
GetOutlineFails == Raise("getOutline", "select")

\* updateOutline.execute: findOutlineById, or the update after it, rejects
UpdateOutlineFails ==
    \E id \in 1..MaxId :
        \E op \in {"first"} \cup (IF findOutlineById(t_outline, id) # {} THEN {"update"} ELSE {}) :
            Raise("updateOutline", op)

\* a delegation tool: an await of invokeSubAgent rejects (the prompts, the
\* context, the Completion Service, a tool of the sub-agent turn)
InvokeSubAgentFails == \E agentType \in AgentTypes : Raise(agentType, "invokeSubAgent")

----------------------------------------------------------------------------

ForeignOutline ==
    [ id |-> 1, projectId |-> otherProject, episode |-> 1,
      data |-> JSONstringify(CHOOSE d \in DocSet : d.title = "t1") ]

ForeignScript ==
    [ name |-> <<"Episode", 1>>, content |-> "", projectId |-> otherProject, outlineId |-> 1 ]

ForeignStoryline == [ projectId |-> otherProject, content |-> "s1" ]

Init ==
    /\ t_outline = {ForeignOutline}
    /\ t_script = SetToBag({ForeignScript})
    /\ t_assets = {}
    /\ nextId = 2
    /\ fresh = FALSE
    /\ last = NoCall
    /\ pre = NoCall
    /\ t_storyline = SetToBag({ForeignStoryline})
    /\ gc = NoRun
    /\ history = <<>>
    /\ turns = <<>>
    /\ run = NoRunningCall
    /\ trace = <<>>
    /\ observing = TRUE
    /\ calls = 0

Next ==
    \/ SaveOutline /\ UNCHANGED <<storyVars, engineVars>>
    \/ UpdateOutline /\ UNCHANGED <<storyVars, engineVars>>
    \/ DeleteOutline /\ UNCHANGED <<storyVars, engineVars>>
    \/ GenerateAssets /\ UNCHANGED <<storyVars, engineVars>>
    \/ Return

Spec == Init /\ [][Next]_vars

NextStory ==
    \/ GetStoryline /\ UNCHANGED <<outlineVars, engineVars>>
    \/ SaveStoryline /\ UNCHANGED <<outlineVars, engineVars>>
    \/ DeleteStoryline /\ UNCHANGED <<outlineVars, engineVars>>
    \/ GetChapter /\ UNCHANGED <<outlineVars, engineVars>>
    \/ LookupDone /\ UNCHANGED <<outlineVars, engineVars>>
    \/ GetChapterJoin /\ UNCHANGED <<outlineVars, engineVars>>
    \/ Return

SpecStory == Init /\ [][NextStory]_vars

NextValidate ==
    \/ SaveOutlineCall
    \/ UpdateOutlineCall
    \/ DeleteOutlineCall
    \/ GetChapterCall
    \/ LookupDone /\ UNCHANGED <<outlineVars, engineVars>>
    \/ GetChapterJoin /\ UNCHANGED <<outlineVars, engineVars>>
    \/ Return

SpecValidate == Init /\ [][NextValidate]_vars

toolVars == <<outlineVars, storyVars, last, pre>>

NextEngine ==
    \/ Call /\ UNCHANGED toolVars
    \/ StartStream /\ UNCHANGED toolVars
    \/ TextDelta /\ UNCHANGED toolVars
    \/ ToolCall(Requests, MaxSteps) /\ UNCHANGED toolVars
    \/ SubAgentEnd /\ UNCHANGED toolVars
    \/ SubAgentReturn /\ UNCHANGED toolVars
    \/ CallPush /\ UNCHANGED toolVars
    \/ CallReturn /\ UNCHANGED toolVars
    \/ Fail /\ UNCHANGED toolVars

SpecEngine == Init /\ [][NextEngine]_vars

\* no subscriber, and a Completion Service that streams no text; the model
\* follows a turn one tool call past the budget of the code
InitBudget ==
    /\ t_outline = {ForeignOutline}
    /\ t_script = SetToBag({ForeignScript})
    /\ t_assets = {}
    /\ nextId = 2
    /\ fresh = FALSE
    /\ last = NoCall
    /\ pre = NoCall
    /\ t_storyline = SetToBag({ForeignStoryline})
    /\ gc = NoRun
    /\ history = <<>>
    /\ turns = <<>>
    /\ run = NoRunningCall
    /\ trace = <<>>
    /\ observing = FALSE
    /\ calls = MaxCalls - 1

NextBudget ==
    \/ Call /\ UNCHANGED toolVars
    \/ StartStream /\ UNCHANGED toolVars
    \/ ToolCall(BudgetRequests, maxStep + 1) /\ UNCHANGED toolVars
    \/ SubAgentEnd /\ UNCHANGED toolVars
    \/ SubAgentReturn /\ UNCHANGED toolVars
    \/ CallPush /\ UNCHANGED toolVars
    \/ CallReturn /\ UNCHANGED toolVars
    \/ Fail /\ UNCHANGED toolVars

SpecBudget == InitBudget /\ [][NextBudget]_vars /\ WF_vars(NextBudget)

\* the bound of the tool calls followed in one turn of SpecDispatch
MaxDispatch == 2

\* the engine with the Record Store behind its tools: a Completion Service
\* that streams tool calls only; pre holds the tables the call() found
NextDispatch ==
    \/ Call /\ pre' = Snapshot /\ UNCHANGED <<outlineVars, storyVars, last>>
    \/ StartStream /\ UNCHANGED toolVars
    \/ ToolCallItem(DispatchRequests, MaxDispatch) /\ UNCHANGED toolVars
    \/ ExecuteTool /\ UNCHANGED <<outlineVars, gc, last, pre>>
    \/ SubAgentEnd /\ UNCHANGED toolVars
    \/ SubAgentReturn /\ UNCHANGED toolVars
    \/ CallPush /\ UNCHANGED toolVars
    \/ CallReturn /\ UNCHANGED toolVars
    \/ Fail /\ UNCHANGED toolVars

SpecDispatch == Init /\ [][NextDispatch]_vars

\* the tools with a Record Store whose operations may reject
NextFault ==
    \/ SaveOutline /\ UNCHANGED <<storyVars, engineVars>>
    \/ SaveOutlineFails /\ UNCHANGED <<storyVars, engineVars>>
    \/ UpdateOutlineFails
    \/ DeleteOutline /\ UNCHANGED <<storyVars, engineVars>>
    \/ GetOutlineFails
    \/ GenerateAssetsFails /\ UNCHANGED <<storyVars, engineVars>>
    \/ SaveStoryline /\ UNCHANGED <<outlineVars, engineVars>>
    \/ GetStorylineFails
    \/ SaveStorylineFails
    \/ DeleteStorylineFails
    \/ GetChapterFails
    \/ InvokeSubAgentFails
    \/ Return

SpecFault == Init /\ [][NextFault]_vars

----------------------------------------------------------------------------
(* Properties of the outline tools *)

IsSave == last.tool = "saveOutline"
IsDelete == last.tool = "deleteOutline"
IsGenerate == last.tool = "generateAssets"

\* scripts of a bag that belong to the outline of an id
ScriptsOf(scripts, id) == BagCardinality(SelectBag(scripts, LAMBDA s : s.outlineId = id))

\* scripts of a bag that belong to the project
ProjectScripts(scripts) == BagCardinality(SelectBag(scripts, LAMBDA s : s.projectId = projectId))

Contiguous(outlines) ==
    /\ { o.episode : o \in Mine(outlines) } = 1..Cardinality(Mine(outlines))
    /\ \A a, b \in Mine(outlines) : a.episode = b.episode => a = b

\* the largest episode number before the call, 0 when the project had no outline
PriorMax ==
    IF Mine(pre.t_outline) = {} THEN 0
    ELSE Max({ o.episode : o \in Mine(pre.t_outline) })

\* the i-th document of the call as it has to be stored under episode number n
Stored(i, n) ==
    JSONstringify(Doc(n, last.episodes[i].title, last.episodes[i].characters,
                      last.episodes[i].props, last.episodes[i].scenes))

\* C1: after saveOutline with overwrite=true the project's outlines are exactly
\* the N new records numbered 1..N, the project has exactly N scripts, one per
\* new outline, and every outline and script it had before the call is gone.
C1_OverwriteClearsFully ==
    (IsSave /\ last.overwrite) =>
        LET N == Len(last.episodes)
        IN  /\ Cardinality(Mine(t_outline)) = N
            /\ \A i \in 1..N : \E o \in Mine(t_outline) : o.episode = i /\ o.data = Stored(i, i)
            /\ Mine(t_outline) \cap pre.t_outline = {}
            /\ \A o \in Mine(t_outline) : \A p \in pre.t_outline : o.id # p.id
            /\ ProjectScripts(t_script) = N
            /\ \A o \in Mine(t_outline) : ScriptsOf(t_script, o.id) = 1
            /\ \A p \in Mine(pre.t_outline) : ScriptsOf(t_script, p.id) = 0

C1_Witness ==
    /\ IsSave /\ last.overwrite
    /\ Mine(pre.t_outline) # {}
    /\ ProjectScripts(pre.t_script) >= 1
    /\ Cardinality(Mine(t_outline)) >= 1

\* C2: saveOutline with overwrite=false and no startEpisode inserts outlines
\* numbered exactly M+1..M+N in input order, M the largest episode number before
\* the call (0 when there was none), and leaves every earlier outline unchanged.
C2_AppendNumbering ==
    (IsSave /\ ~last.overwrite /\ last.startEpisode = NoStart) =>
        LET N   == Len(last.episodes)
            new == t_outline \ pre.t_outline
        IN  /\ pre.t_outline \subseteq t_outline
            /\ Cardinality(new) = N
            /\ { o.episode : o \in new } = (PriorMax + 1)..(PriorMax + N)
            /\ \A i \in 1..N : \E o \in new :
                   o.episode = PriorMax + i /\ o.data = Stored(i, PriorMax + i)

C2_Witness ==
    /\ IsSave /\ ~last.overwrite /\ last.startEpisode = NoStart
    /\ PriorMax >= 2
    /\ Cardinality(Mine(pre.t_outline)) = 1

\* C3: the effective start of a saveOutline is 1 when overwrite=true (also when
\* a startEpisode is given), else the startEpisode given, else the largest
\* existing episode + 1; the i-th input document (0-based) is stored with
\* episode number start+i and with its episodeIndex rewritten to start+i.
C3_EffectiveStart ==
    IsSave =>
        LET start == IF last.overwrite THEN 1
                     ELSE IF last.startEpisode # NoStart THEN last.startEpisode
                     ELSE PriorMax + 1
        IN  /\ last.actualStart = start
            /\ \A i \in 1..Len(last.episodes) : \E o \in t_outline \ pre.t_outline :
                   /\ o.id = last.firstId + (i - 1)
                   /\ o.projectId = projectId
                   /\ o.episode = start + (i - 1)
                   /\ safeParseJson(o.data, EmptyDoc).episodeIndex = start + (i - 1)
                   /\ o.data = Stored(i, start + (i - 1))

C3_Witness ==
    /\ IsSave /\ last.overwrite
    /\ last.startEpisode = 2
    /\ Len(last.episodes) = 2
    /\ last.episodes[1].episodeIndex = 9
    /\ \E o \in Mine(t_outline) : o.episode = 1 /\ o.data = Stored(1, 1)

\* C4: every saveOutline call, whatever overwrite and startEpisode, gives each
\* outline it inserts exactly one new empty script whose outlineId is that
\* outline's id and whose name carries its episode number, and creates no script
\* for an outline that existed before the call.
C4_ScriptPerInsertedOutline ==
    IsSave =>
        /\ \A o \in t_outline \ pre.t_outline :
               /\ ScriptsOf(t_script, o.id) = 1
               /\ \A s \in BagToSet(t_script) :
                      s.outlineId = o.id => s.name = <<"Episode", o.episode>> /\ s.content = ""
        /\ \A p \in Mine(t_outline) \cap pre.t_outline :
               ScriptsOf(t_script, p.id) = ScriptsOf(pre.t_script, p.id)

\* C5: in every reachable state no two scripts share an outlineId and every
\* script's outlineId is the id of an outline that exists.
C5_OneScriptPerOutline ==
    \A s \in BagToSet(t_script) :
        /\ ScriptsOf(t_script, s.outlineId) = 1
        /\ \E o \in t_outline : o.id = s.outlineId

\* C6: in every reachable state the episode numbers of the project's K outlines
\* are exactly 1..K.
C6_EpisodesContiguous ==
    { o.episode : o \in Mine(t_outline) } = 1..Cardinality(Mine(t_outline))

\* C6 as amended: saveOutline with overwrite=true or with no startEpisode, and
\* updateOutline, keep the numbering gap-free: when the project's outlines were
\* numbered exactly 1..K before such a call they are numbered exactly 1..K'
\* after it.
C6_ContiguityPreserved ==
    ( /\ \/ IsSave /\ (last.overwrite \/ last.startEpisode = NoStart)
         \/ last.tool = "updateOutline"
      /\ Contiguous(pre.t_outline) )
    => Contiguous(t_outline)

C6_Witness ==
    /\ IsSave /\ ~last.overwrite /\ last.startEpisode = NoStart
    /\ Cardinality(Mine(pre.t_outline)) = 1
    /\ Contiguous(pre.t_outline)
    /\ Cardinality(Mine(t_outline)) = 2

\* C7: in every reachable state no two outlines of the project have the same
\* episode number.
C7_EpisodeUnique ==
    \A a, b \in Mine(t_outline) : a.episode = b.episode => a = b

\* the tables when the deletion of position i starts
BeforeId(i) ==
    deleteOutlineData([ t_outline |-> pre.t_outline, t_script |-> pre.t_script,
                        status |-> "none" ], last.ids, last.failing, i - 1)

----------------------------------------------------------------------------
(* Properties of the asset extraction *)

Field(data, type) ==
    CASE type = "character" -> data.characters
      [] type = "prop"      -> data.props
      [] type = "scene"     -> data.scenes

\* the descriptions a name of a type has in an outline
Descriptions(o, type, name) ==
    { it.description : it \in { x \in Range(Field(safeParseJson(o.data, EmptyDoc), type)) :
                                   x.name = name } }

\* the names the documents use
Names ==
    UNION { { it.name : it \in Range(d.characters) \cup Range(d.props) \cup Range(d.scenes) } :
              d \in DocSet }

\* the (type, name) entries that occur in the project's outlines
Entries(outlines) ==
    { e \in AssetTypes \X Names :
        \E o \in Mine(outlines) : Descriptions(o, e[1], e[2]) # {} }

\* C9: after generateAssets every (type, name) that occurs in an outline has
\* exactly one asset record, holding the description of the occurrence in the
\* highest episode-numbered outline that contains the name.
C9_LatestEpisodeWins ==
    (IsGenerate /\ Mine(t_outline) # {}) =>
        \A e \in Entries(t_outline) :
            LET having == { o \in Mine(t_outline) : Descriptions(o, e[1], e[2]) # {} }
                top    == { o \in having : \A x \in having : x.episode <= o.episode }
            IN  /\ Cardinality(findAssetByTypeAndName(t_assets, e[1], e[2])) = 1
                /\ \A a \in findAssetByTypeAndName(t_assets, e[1], e[2]) :
                       \E o \in top : a.intro \in Descriptions(o, e[1], e[2])

\* C10: generateAssets run again with no outline change since the run before
\* reports inserted=0, updated=0 and skipped=N, N the number of distinct
\* (type, name) entries of the outlines, and leaves every asset unchanged.
C10_RerunUnchanged ==
    (IsGenerate /\ pre.fresh) =>
        /\ last.inserted = 0
        /\ last.updated = 0
        /\ last.skipped = Cardinality(Entries(t_outline))
        /\ t_assets = pre.t_assets

C10_Witness ==
    /\ IsGenerate /\ pre.fresh
    /\ Cardinality(Mine(t_outline)) = 2
    /\ last.skipped = 4
    /\ \E a \in t_assets : a.name = "Lin" /\ a.type = "character" /\ a.intro = "b"

----------------------------------------------------------------------------
(* Properties of the asset table *)

\* the (type, name) keys of the project's assets
AssetKeys(assets) ==
    { <<a.type, a.name>> : a \in { x \in assets : x.projectId = projectId } }

----------------------------------------------------------------------------
(* Properties of the storyline tools *)

\* the number of storyline rows of the project
OwnStorylines(tbl) == BagCardinality(MyStorylines(tbl))

\* C12: after any sequence of saveStoryline and deleteStoryline calls the
\* project has at most one storyline record; after saveStoryline(c) it has
\* exactly one, holding c, the first save adding a row and a later save
\* overwriting in place without adding one; after deleteStoryline it has none.
C12_AtMostOneStoryline ==
    /\ OwnStorylines(t_storyline) <= 1
    /\ last.tool = "saveStoryline" =>
           /\ MyStorylines(t_storyline) =
                  SetToBag({ [ projectId |-> projectId, content |-> last.content ] })
           /\ BagCardinality(t_storyline) =
                  BagCardinality(pre.t_storyline) +
                      (IF OwnStorylines(pre.t_storyline) = 0 THEN 1 ELSE 0)
    /\ last.tool = "deleteStoryline" => OwnStorylines(t_storyline) = 0

\* a save over a storyline that held another text
C12_Witness ==
    /\ last.tool = "saveStoryline"
    /\ OwnStorylines(pre.t_storyline) = 1
    /\ \E r \in BagToSet(MyStorylines(pre.t_storyline)) : r.content # last.content
    /\ OwnStorylines(t_storyline) = 1

----------------------------------------------------------------------------
(* Properties of getChapter *)

\* the blocks of a joined text, without the separators between them
Blocks(text) == [ i \in 1..((Len(text) + 1) \div 2) |-> text[2 * i - 1] ]

StoredChapters(num) ==
    { c \in t_novel : c.projectId = projectId /\ c.chapterIndex = num }

\* C13: getChapter returns one block per requested number, in the order of
\* the input list, whatever the order in which the concurrent lookups
\* completed; a number with no stored chapter has a "not found" block at its
\* own place and the call still returns.
C13_ChapterOrder ==
    last.tool = "getChapter" =>
        LET nums   == last.chapterNumbers
            blocks == Blocks(last.text)
        IN  /\ Len(blocks) = Len(nums)
            /\ \A i \in DOMAIN nums :
                   IF StoredChapters(nums[i]) = {}
                   THEN blocks[i] = <<"chapter", nums[i], "not found">>
                   ELSE \E c \in StoredChapters(nums[i]) :
                            blocks[i] = <<"chapter", nums[i], c.chapter, c.chapterData>>

\* three numbers, the middle one not stored, the lookups completing last to first
C13_Witness ==
    /\ last.tool = "getChapter"
    /\ last.chapterNumbers = <<3, 2, 1>>
    /\ last.order = <<3, 2, 1>>
    /\ Blocks(last.text)[2] = <<"chapter", 2, "not found">>
    /\ Blocks(last.text)[1][4] = "d3"

----------------------------------------------------------------------------
(* Properties of the engine *)

\* the positions of the trace that hold a notification of an event
At(event) == { i \in DOMAIN trace : trace[i].event = event }

\* the texts of a sequence of notifications, concatenated in order
RECURSIVE Concatenated(_)
Concatenated(notifications) ==
    IF notifications = <<>> THEN <<>>
    ELSE Head(notifications).text \o Concatenated(Tail(notifications))

\* C14: every call() ends, even when the model asks for another tool call at
\* every step, delegations included: no turn executes more than 100 tool
\* calls, no turn runs below a sub-agent turn, and a running call stops running.
C14_CallEnds ==
    /\ [](\A i \in DOMAIN turns : turns[i].steps <= 100)
    /\ [](Len(turns) <= 2)
    /\ ((run.status = "running") ~> (run.status # "running"))

\* the top-level turn and a sub-agent turn both at the end of their budget
C14_Witness ==
    /\ Len(turns) = 2
    /\ turns[1].steps = 100
    /\ turns[2].steps = 100

\* C15: while a sub-agent turn runs, the tools that execute are among
\* getChapter, getStoryline, saveStoryline, getOutline, saveOutline and
\* updateOutline: no deleteStoryline, deleteOutline, generateAssets or
\* delegation executes in it, and delegation is never deeper than one level.
C15_SubAgentToolSubset ==
    /\ Len(turns) <= 2
    /\ \A i \in At("execute") :
           trace[i].turn # "main" =>
               trace[i].tool \in {"getChapter", "getStoryline", "saveStoryline",
                                  "getOutline", "saveOutline", "updateOutline"}

\* a sub-agent turn executed a tool
C15_Witness ==
    /\ Len(turns) = 2
    /\ \E i \in At("execute") :
           trace[i].turn = "director" /\ trace[i].tool = "saveStoryline"

\* C16: every notification of the stream of a sub-agent turn of persona P is
\* labelled with P: a subAgentStream carries agent = P and the toolCall of a
\* tool the sub-agent asked for carries agent = P, not the top-level tag.
C16_PersonaLabels ==
    /\ \A i \in At("subAgentStream") :
           \E t \in At("transfer") :
               /\ t < i
               /\ \A j \in At("transfer") : j <= t \/ j > i
               /\ trace[i].agent = trace[t].to
    /\ \A i \in At("execute") :
           trace[i].turn # "main" =>
               /\ trace[i - 1].event = "toolCall"
               /\ trace[i - 1].agent = trace[i].turn

\* the notifications of an event, in the order of emission
Emitted(event) == SelectSeq(trace, LAMBDA n : n.event = event)

\* C17: when call() has returned, the data texts concatenated in the order of
\* emission are the payload of response, the value returned and the content
\* of the assistant entry that ends the history; response is emitted once,
\* after every data and after that entry was appended, and never before.
C17_ResponseIsTheStream ==
    /\ Cardinality(At("response")) <= 1
    /\ At("response") # {} <=> run.status = "returned"
    /\ run.status = "returned" =>
           /\ At("response") = { Len(trace) }
           /\ Concatenated(Emitted("data")) = trace[Len(trace)].text
           /\ run.value = trace[Len(trace)].text
           /\ history[Len(history)] =
                  [ role |-> "assistant", content |-> trace[Len(trace)].text ]

\* a call that delegated and streamed two different fragments has returned
C17_Witness ==
    /\ run.status = "returned"
    /\ Len(Emitted("data")) = 2
    /\ run.value = <<"b", "c", "a">>
    /\ At("subAgentStream") # {}
    /\ Len(history) = 3

\* the delegations of the call whose sub-agent turn has returned
Returned ==
    Cardinality(At("subAgentEnd")) -
        (IF Len(turns) = 2 /\ current.phase = "ended" THEN 1 ELSE 0)

\* the k-th transfer of the trace
Transfer(k) ==
    CHOOSE i \in At("transfer") : Cardinality({ j \in At("transfer") : j <= i }) = k

\* the text the sub-agent turn of the k-th delegation streamed
SubAgentText(k) ==
    LET until == IF k < Cardinality(At("transfer")) THEN Transfer(k + 1) - 1
                 ELSE Len(trace)
    IN  Concatenated(SelectSeq(SubSeq(trace, Transfer(k), until),
            LAMBDA n : n.event = "subAgentStream"))

\* the entries the call under way has appended to the history
Appended == SubSeq(history, Len(run.found) + 1, Len(history))

\* the top-level turn has appended its assistant entry
TopLevelAppended ==
    \/ run.status = "returned"
    \/ Len(turns) = 1 /\ current.phase = "ended"

\* C18: a delegation to P is synchronous and folds into the shared history:
\* transfer{to: P} comes before every subAgentStream of the delegation,
\* subAgentEnd{agent: P} comes once, after all of them, and when the
\* delegation tool returns the history holds an assistant entry with the full
\* text of the sub-agent, after the user entry of the call and before the
\* final assistant entry of the parent.
C18_DelegationFolds ==
    run.status # "idle" =>
        /\ \A i \in At("subAgentStream") :
               \E t \in At("transfer") :
                   /\ t < i
                   /\ trace[t].to = trace[i].agent
                   /\ \A j \in t + 1 .. i - 1 :
                          trace[j].event \notin {"transfer", "subAgentEnd"}
        /\ \A e \in At("subAgentEnd") :
               \E t \in At("transfer") :
                   /\ t < e
                   /\ trace[t].to = trace[e].agent
                   /\ \A j \in t + 1 .. e - 1 :
                          trace[j].event \notin {"transfer", "subAgentEnd"}
        /\ Len(turns) <= 1 /\ run.status # "raised" =>
               Cardinality(At("subAgentEnd")) = Cardinality(At("transfer"))
        /\ Len(Appended) = 1 + Returned + (IF TopLevelAppended THEN 1 ELSE 0)
        /\ Appended[1].role = "user"
        /\ \A k \in 1..Returned :
               Appended[1 + k] = [ role |-> "assistant", content |-> SubAgentText(k) ]

\* a delegation streamed text and returned, and the parent ended with its own
C18_Witness ==
    /\ run.status = "returned"
    /\ Returned = 1
    /\ trace[Transfer(1)].to = "AI1"
    /\ SubAgentText(1) = <<"a", "b", "c">>
    /\ Appended = << [ role |-> "user", content |-> run.msg ],
                     [ role |-> "assistant", content |-> <<"a", "b", "c">> ],
                     [ role |-> "assistant", content |-> <<"a">> ] >>

\* C19: when the Completion Service or a Record Store lookup fails during
\* call(), the call is rejected, no response is emitted and no top-level
\* assistant entry is appended; what was appended before the failure (the
\* user message, the texts of the sub-agent turns that had returned) stays,
\* and a later call() on the instance appends after it.
C19_FailureLeavesHistory ==
    /\ run.status = "raised" =>
           /\ At("response") = {}
           /\ Len(Appended) = 1 + Returned
           /\ \A k \in 1..Returned :
                  Appended[1 + k] = [ role |-> "assistant", content |-> SubAgentText(k) ]
    /\ run.status # "idle" =>
           /\ SubSeq(history, 1, Len(run.found)) = run.found
           /\ Len(Appended) >= 1
           /\ Appended[1] = [ role |-> "user", content |-> run.msg ]

\* a call failed after a sub-agent turn had returned, and the next call returned
C19_Witness ==
    /\ calls = 2
    /\ run.status = "returned"
    /\ run.found = << [ role |-> "user", content |-> <<"q">> ],
                      [ role |-> "assistant", content |-> <<"b", "c">> ] >>
    /\ Len(history) = 4

----------------------------------------------------------------------------
(* Properties of the input schemas *)

Rejected == "rejected" \in DOMAIN last

\* the input of the tool call on record: as sent when it was rejected, as
\* execute received it otherwise
Given == IF Rejected THEN last.input ELSE last

\* the tool call on record has one of the malformed inputs
Malformed ==
    \/ /\ last.tool = "saveOutline"
       /\ \/ Len(Given.episodes) = 0
          \/ \E i \in DOMAIN Given.episodes : Len(Given.episodes[i].keyEvents) # 4
    \/ /\ last.tool = "deleteOutline"
       /\ Len(Given.ids) = 0
    \/ /\ last.tool = "getChapter"
       /\ Len(Given.chapterNumbers) = 0
    \/ /\ last.tool = "updateOutline"
       /\ IF Rejected THEN "id" \notin DOMAIN last.input ELSE last.id = Absent

\* C20: a tool call whose input does not match the declared shape (saveOutline
\* with no episodes or with a document whose keyEvents are not exactly 4,
\* deleteOutline or getChapter with an empty list, updateOutline without an
\* id) is rejected before execute runs: no storyline, outline, script or
\* asset record changes and no refresh is emitted.
C20_ValidateBeforeExecute ==
    Malformed =>
        /\ Rejected
        /\ t_outline = pre.t_outline
        /\ t_script = pre.t_script
        /\ t_assets = pre.t_assets
        /\ t_storyline = pre.t_storyline
        /\ last.refresh = <<>>

\* an overwriting saveOutline with a document of 3 key events, sent when the
\* project had outlines, was rejected
C20_Witness ==
    /\ Rejected
    /\ last.tool = "saveOutline"
    /\ overwriteOf(last.input)
    /\ Len(last.input.episodes) = 1
    /\ Len(last.input.episodes[1].keyEvents) = 3
    /\ Mine(t_outline) # {}

----------------------------------------------------------------------------
(* Properties of updateOutline *)

\* C21: updateOutline with an id that is not an outline of the project (absent,
\* or an outline of another project) returns the not-found text, leaves every
\* outline and script record as it was and emits no refresh; with the id of an
\* outline of the project it replaces the stored document of that outline
\* only: its episode number, the scripts and every other outline stay.
C21_UpdateOutlineNotFound ==
    last.tool = "updateOutline" =>
        LET target == { o \in pre.t_outline : o.id = last.id /\ o.projectId = projectId }
        IN  IF target = {}
            THEN /\ last.text = <<"outline", last.id, "not found">>
                 /\ t_outline = pre.t_outline
                 /\ t_script = pre.t_script
                 /\ last.refresh = <<>>
            ELSE /\ last.text = <<"outline", last.id, "updated">>
                 /\ t_script = pre.t_script
                 /\ { o \in t_outline : o.id # last.id } =
                        { o \in pre.t_outline : o.id # last.id }
                 /\ \A o \in target :
                        { n \in t_outline : n.id = last.id } =
                            { [ id |-> o.id, projectId |-> o.projectId,
                                episode |-> o.episode,
                                data |-> JSONstringify(last.data) ] }

\* updateOutline was given the id of an outline of another project, and, in
\* another execution, the id of an outline of the project holding another document
C21_Witness ==
    /\ last.tool = "updateOutline"
    /\ \/ /\ \E o \in pre.t_outline : o.id = last.id /\ o.projectId = otherProject
          /\ Cardinality(Mine(pre.t_outline)) >= 1
       \/ /\ \E o \in Mine(pre.t_outline) :
                 o.id = last.id /\ o.data # JSONstringify(last.data)
          /\ Cardinality(Mine(pre.t_outline)) >= 2

----------------------------------------------------------------------------
(* Properties of the tools when the Record Store fails *)

\* the execution that just ended rejected instead of returning
Raised == last # NoCall /\ "raised" \in DOMAIN last

\* C22: every tool execution ends by returning a text and never raises, also
\* when a Record Store operation or a sub-agent turn it uses fails.
C22_ToolsNeverRaise == ~Raised

\* C23: a saveOutline execution that fails at one of its store operations
\* leaves t_outline and t_script exactly as they were before the call.
C23_SaveOutlineAtomic ==
    (Raised /\ last.tool = "saveOutline") =>
        /\ t_outline = pre.t_outline
        /\ t_script = pre.t_script

----------------------------------------------------------------------------
(* Properties of the dispatch of tool calls *)

\* the places of the trace before place k that hold a toolCall naming one of the tools
ToolCallsBefore(k, tools) ==
    { j \in 1..(k - 1) : trace[j].event = "toolCall" /\ trace[j].name \in tools }

\* the places up to place k where the execution of one of the tools started
StartsUpTo(k, tools) ==
    { j \in 1..k : trace[j].event = "execute" /\ trace[j].tool \in tools }

\* the tools that write t_storyline and emit refresh("storyline")
StorylineWriters == {"saveStoryline", "deleteStoryline"}

\* C24: the toolCall notification naming a tool is emitted before the
\* execution of that tool starts, so before the transfer or the refresh it
\* emits and before it writes the store, one notification for each execution;
\* the notification carries the agent tag and the tool name and null for the
\* arguments.
C24_ToolCallBeforeExecution ==
    /\ \A k \in DOMAIN trace :
           /\ trace[k].event = "execute" =>
                  Cardinality(StartsUpTo(k, {trace[k].tool})) <=
                      Cardinality(ToolCallsBefore(k, {trace[k].tool}))
           /\ trace[k].event = "refresh" =>
                  Cardinality({ j \in 1..k : trace[j].event = "refresh" }) <=
                      Cardinality(ToolCallsBefore(k, StorylineWriters))
           /\ trace[k].event = "transfer" =>
                  Cardinality({ j \in 1..k : trace[j].event = "transfer"
                                              /\ trace[j].to = trace[k].to }) <=
                      Cardinality(ToolCallsBefore(k, {trace[k].to}))
           /\ trace[k].event = "toolCall" =>
                  /\ DOMAIN trace[k] = {"event", "agent", "name", "args"}
                  /\ trace[k].agent \in Tags
                  /\ trace[k].name \in getAllTools
                  /\ trace[k].args = Null
    /\ (pre # NoCall /\ t_storyline # pre.t_storyline) =>
           ToolCallsBefore(Len(trace) + 1, StorylineWriters) # {}

\* a sub-agent turn was sent a saveStoryline item with a content: after the
\* transfer, its tool has run, written the storyline and emitted the refresh,
\* and the next item of the turn is taken and its tool has not run yet
C24_Witness ==
    /\ pre # NoCall
    /\ t_storyline # pre.t_storyline
    /\ Len(turns) = 2
    /\ current.phase = "tool"
    /\ \E i, j, k \in DOMAIN trace :
           /\ i < j /\ j < k
           /\ trace[i].event = "transfer"
           /\ trace[j].event = "toolCall" /\ trace[j].name = "saveStoryline"
           /\ trace[k].event = "refresh"

====
